---- MODULE Spec2Model ----
(***************************************************************************)
(* cassandra_migrate/config.py: MigrationConfig.                           *)
(*                                                                         *)
(* The module models the construction of a MigrationConfig from a raw      *)
(* mapping, statement by statement (the position in __init__ is pc), the   *)
(* generic extract_config_entry with its type check and validators, the    *)
(* two validators, and format_migration_string.                            *)
(*                                                                         *)
(* Python values are records [t |-> <type name>, v |-> <payload>].         *)
(* Identifier strings are sequences of characters.  Format strings are     *)
(* sequences of lexemes: the markup characters "{", "}", ":" and "." are   *)
(* lexemes of their own, every other lexeme stands for a maximal run of    *)
(* ordinary characters (so no two word lexemes are adjacent).  The "!"     *)
(* conversion marker does not occur in the templates drawn here.           *)
(*                                                                         *)
(* Interpreter: config.py line 7 imports `unicode` from `builtins`, which  *)
(* only the python-future shim of Python 2 provides (the Python 3 builtins *)
(* module has no `unicode`, the import fails), and line 125 reads          *)
(* `e.message`, which only Python 2 exceptions have.  The language         *)
(* semantics modelled are therefore those of Python 2 (PythonMajor).       *)
(***************************************************************************)
EXTENDS Naturals, Sequences, FiniteSets, TLC

VARIABLES
    pc,                 \* the statement of __init__ to run (or that raised), "idle", "done"
    data,               \* the raw mapping passed to __init__
    base_path,          \* the base path passed to __init__
    self,               \* the instance's attributes (those not yet assigned: Unset)
    heap,               \* the two dict objects: DEFAULT_PROFILES and the copy
    user_profiles,      \* local variable of __init__ (line 76)
    err,                \* the exception that left __init__, or NoError
    glob_calls,         \* calls of Migration.glob_all made by this construction
    fmt_call,           \* arguments of the last format_migration_string call
    fmt_ret             \* its outcome

vars == <<pc, data, base_path, self, heap, user_profiles, err, glob_calls,
          fmt_call, fmt_ret>>

-----------------------------------------------------------------------------
(* Bounds and program constants *)

PythonMajor == 2

MaxProfiles == 2

-----------------------------------------------------------------------------
(* Python values *)

PyNone == [t |-> "NoneType", v |-> <<>>]

Unset == [t |-> "unset", v |-> <<>>]

PyUnicode(s) == [t |-> "unicode", v |-> s]

PyInt(n) == [t |-> "int", v |-> n]

PyBool(b) == [t |-> "bool", v |-> b]

PyDict(m) == [t |-> "dict", v |-> m]

PyList(s) == [t |-> "list", v |-> s]

PySet(s) == [t |-> "set", v |-> s]

IsNone(x) == x.t = "NoneType"

\* isinstance(value, type_) for the classes passed as type_ (unicode, dict, bool)
IsInstance(value, type_) == value.t = type_

\* dict.get(key, None)
DictGet(d, key) == IF key \in DOMAIN d.v THEN d.v[key] ELSE PyNone

\* a mapping restricted to the keys it really holds
Restrict(f, K) == [k \in K |-> f[k]]

\* (variant: an entry already present is kept)
DictPutIfAbsent(m, k, x) ==
    [n \in DOMAIN m \cup {k} |-> IF n \in DOMAIN m THEN m[n] ELSE x]

\* dict.update with one (name, value) pair
DictPut(m, k, x) == [n \in DOMAIN m \cup {k} |-> IF n = k THEN x ELSE m[n]]

-----------------------------------------------------------------------------
(* Module and class constants *)

\* lines 16-21, after lstrip(): the template ends in literal text " */\n"
DEFAULT_NEW_MIGRATION_TEXT ==
    PyUnicode(<< "/* Cassandra migration for keyspace ", "{", "keyspace", "}",
                 ".\n   Version ", "{", "next_version", "}", " - ",
                 "{", "date", "}", "\n\n   ", "{", "full_desc", "}", " */\n" >>)

DefaultNewMigrationName ==
    PyUnicode(<< "v", "{", "next_version", "}", "_", "{", "desc", "}" >>)

DefaultMigrationsTable ==
    PyUnicode(<< "d","a","t","a","b","a","s","e","_",
                 "m","i","g","r","a","t","i","o","n","s" >>)

SimpleStrategy == PyDict([class |-> "SimpleStrategy", replication_factor |-> 1])

\* lines 44-48: the built-in dev profile holds a replication entry only
DEFAULT_PROFILES == [dev |-> PyDict([replication |-> SimpleStrategy])]

MIGRATION_FORMAT_STRING_FIELDS ==
    {"desc", "full_desc", "next_version", "date", "keyspace"}

\* the "no default" sentinel of extract_config_entry
EMPTY_DEFAULT == [t |-> "_EMPTY_DEFAULT", v |-> <<>>]

NoValidator == "none"

-----------------------------------------------------------------------------
(* Exceptions *)

NoError == [type |-> "none"]

\* lines 24-28
ConfigValidationError(key, value, msg) ==
    [type |-> "ConfigValidationError", key |-> key, value |-> value,
     args |-> msg]

ValueError(msg) == [type |-> "ValueError", message |-> msg]

AttributeError(msg) == [type |-> "AttributeError", message |-> msg]

KeyError(msg) == [type |-> "KeyError", message |-> msg]

Ok == [type |-> "none"]

\* e.message (line 125): Python 2 exceptions carry it; on Python 3 the
\* attribute does not exist
HasMessage(e) == PythonMajor = 2

-----------------------------------------------------------------------------
(* validate_identifier, lines 140-143 *)

Letters == {"a", "b", "t", "k", "s", "d", "e", "m", "i", "g", "r", "o", "n"}

Digits == {"1", "2"}

IsLetter(c) == c \in Letters

IsWordChar(c) == c \in Letters \cup Digits \cup {"_"}

\* re.match(r'^[a-zA-Z][a-zA-Z0-9_]*$', s): the greedy class run starts at the
\* second character; `$` (no MULTILINE flag) matches at the end of the
\* string and also just before a line break that ends the string.
RECURSIVE WordRunEnd(_, _)
WordRunEnd(s, i) ==
    IF i <= Len(s) /\ IsWordChar(s[i]) THEN WordRunEnd(s, i + 1) ELSE i

DollarMatchesAt(s, i) ==
    \/ i = Len(s) + 1
    \/ i = Len(s) /\ s[i] = "\n"

ReMatchIdentifier(s) ==
    /\ Len(s) >= 1
    /\ IsLetter(s[1])
    /\ DollarMatchesAt(s, WordRunEnd(s, 2))

IdentifierMessage ==
    "Identifiers must consist of a letter followed by letters, numbers or underscores"

validate_identifier(value) ==
    IF ~ReMatchIdentifier(value.v)
    THEN ValueError(IdentifierMessage)
    ELSE Ok

-----------------------------------------------------------------------------
(* string.Formatter.parse, as used on lines 146 and 155 *)

IsBrace(c) == c = "{" \/ c = "}"

\* index of the first brace at or after i, Len(s) + 1 when there is none
RECURSIVE NextBrace(_, _)
NextBrace(s, i) ==
    IF i > Len(s) \/ IsBrace(s[i]) THEN i ELSE NextBrace(s, i + 1)

\* index of the "}" closing the field whose text starts at i, counting nested
\* braces; 0 when the string ends first
RECURSIVE FieldEnd(_, _, _)
FieldEnd(s, i, bracket_count) ==
    IF i > Len(s) THEN 0
    ELSE IF s[i] = "{" THEN FieldEnd(s, i + 1, bracket_count + 1)
    ELSE IF s[i] = "}"
         THEN IF bracket_count - 1 <= 0 THEN i
              ELSE FieldEnd(s, i + 1, bracket_count - 1)
    ELSE FieldEnd(s, i + 1, bracket_count)

\* index of the first lexeme c at or after i, Len(s) + 1 when there is none
RECURSIVE IndexOf(_, _, _)
IndexOf(s, c, i) ==
    IF i > Len(s) \/ s[i] = c THEN i ELSE IndexOf(s, c, i + 1)

\* the text of a replacement field split at its first ":"
ParseField(f) ==
    LET colon == IndexOf(f, ":", 1)
    IN  [field_name |-> SubSeq(f, 1, colon - 1),
         format_spec |-> SubSeq(f, colon + 1, Len(f))]

\* One step of the parse iterator from position i: "stop", an "error" (the
\* iterator raises ValueError), or an "item": (literal_text, field_name,
\* format_spec) and the position after it.  field_present is FALSE when the
\* item is literal text alone; field_name and format_spec are then None.
MarkupNext(s, i) ==
    IF i > Len(s) THEN [kind |-> "stop"]
    ELSE
    LET j == NextBrace(s, i)
    IN  IF j > Len(s)
        THEN [kind |-> "item", literal |-> SubSeq(s, i, Len(s)),
              field_present |-> FALSE, field_name |-> <<>>,
              format_spec |-> <<>>, next |-> Len(s) + 1]
        ELSE IF s[j] = "}" /\ (j = Len(s) \/ s[j + 1] # "}")
        THEN [kind |-> "error",
              exc |-> ValueError("Single '}' encountered in format string")]
        ELSE IF s[j] = "{" /\ j = Len(s)
        THEN [kind |-> "error",
              exc |-> ValueError("Single '{' encountered in format string")]
        ELSE IF s[j + 1] = s[j]
        THEN \* "{{" or "}}": one brace of literal text, no field
             [kind |-> "item", literal |-> SubSeq(s, i, j),
              field_present |-> FALSE, field_name |-> <<>>,
              format_spec |-> <<>>, next |-> j + 2]
        ELSE
        LET k == FieldEnd(s, j + 1, 1)
        IN  IF k = 0
            THEN [kind |-> "error",
                  exc |-> ValueError("unmatched '{' in format")]
            ELSE LET f == ParseField(SubSeq(s, j + 1, k - 1))
                 IN  [kind |-> "item", literal |-> SubSeq(s, i, j - 1),
                      field_present |-> TRUE, field_name |-> f.field_name,
                      format_spec |-> f.format_spec, next |-> k + 1]

\* field_name.split('.')[0]
FirstDotted(field_name) == SubSeq(field_name, 1, IndexOf(field_name, ".", 1) - 1)

\* the string a lexeme sequence stands for
RECURSIVE Text(_)
Text(s) == IF s = <<>> THEN "" ELSE Head(s) \o Text(Tail(s))

-----------------------------------------------------------------------------
(* validate_migration_format_string, lines 145-149 *)

\* line 147 on one parsed item: field_name is None for an item without a
\* field, and None has no split
SplitFirst(item) ==
    IF ~item.field_present
    THEN AttributeError("'NoneType' object has no attribute 'split'")
    ELSE [type |-> "none", name |-> Text(FirstDotted(item.field_name))]

\* line 148
IsKnownField(name) == name \in MIGRATION_FORMAT_STRING_FIELDS

RECURSIVE ValidateFrom(_, _)
ValidateFrom(s, i) ==
    LET r == MarkupNext(s, i)
    IN  CASE r.kind = "stop" -> Ok
          [] r.kind = "error" -> r.exc
          [] OTHER ->
                LET first == SplitFirst(r)
                IN  IF first.type # "none" THEN first
                    ELSE IF ~IsKnownField(first.name)
                    THEN ValueError("Unknown format field: " \o first.name)
                    ELSE ValidateFrom(s, r.next)

validate_migration_format_string(fmt) == ValidateFrom(fmt.v, 1)

-----------------------------------------------------------------------------
(* extract_config_entry, lines 103-128 *)

Raise(e) == [exc |-> e, value |-> PyNone]

Return(x) == [exc |-> NoError, value |-> x]

\* validate(value), line 123
CallValidator(validate, value) ==
    CASE validate = "validate_identifier" -> validate_identifier(value)
      [] validate = "validate_migration_format_string" ->
            validate_migration_format_string(value)

\* (variant: the handler lets the ValueError through)
ReraiseValueError(key_str, value, e) == e

\* lines 124-126: the handler of `except ValueError as e`
WrapValueError(key_str, value, e) ==
    IF HasMessage(e)
    THEN ConfigValidationError(key_str, value, "Validation failed: " \o e.message)
    ELSE AttributeError("'ValueError' object has no attribute 'message'")

\* lines 124-128: what the call of the validator leads to
AfterValidator(key_str, value, e) ==
    CASE e.type = "none" -> Return(value)
      [] e.type = "ValueError" -> Raise(WrapValueError(key_str, value, e))
      [] OTHER -> Raise(e)

\* lines 121-128
Validated(key_str, value, validate) ==
    IF validate = NoValidator THEN Return(value)
    ELSE AfterValidator(key_str, value, CallValidator(validate, value))

\* lines 116-128
TypeChecked(key_str, value, validate, type_) ==
    IF type_ # "" /\ ~IsInstance(value, type_)
    THEN Raise(ConfigValidationError(key_str, value,
            "Value has wrong type " \o value.t \o ", expected " \o type_))
    ELSE Validated(key_str, value, validate)

\* lines 109-128: value is data.get(key, None)
Resolved(key_str, value, default, validate, type_) ==
    IF IsNone(value)
    THEN IF default.t = EMPTY_DEFAULT.t
         THEN Raise(ConfigValidationError(key_str, PyNone, "Key is mandatory"))
         ELSE TypeChecked(key_str, default, validate, type_)
    ELSE TypeChecked(key_str, value, validate, type_)

\* (variant: the key path leaves the prefix out)
extract_config_entry_unprefixed(d, key, default, validate, type_, prefix) ==
    IF d.t # "dict"
    THEN Raise(AttributeError("'" \o d.t \o "' object has no attribute 'get'"))
    ELSE Resolved(key, DictGet(d, key), default, validate, type_)

extract_config_entry(d, key, default, validate, type_, prefix) ==
    IF d.t # "dict"
    THEN Raise(AttributeError("'" \o d.t \o "' object has no attribute 'get'"))
    ELSE Resolved(prefix \o key, DictGet(d, key), default, validate, type_)

-----------------------------------------------------------------------------
(* extract_profile, lines 130-138 *)

ProfilePrefix(name) == "profiles." \o name \o "."

\* the dict display of lines 132-138: its entries are evaluated in order
ProfileDict(replication, durable_writes) ==
    IF replication.exc.type # "none" THEN replication
    ELSE IF durable_writes.exc.type # "none" THEN durable_writes
    ELSE Return(PyDict([replication |-> replication.value,
                        durable_writes |-> durable_writes.value]))

extract_profile(d, name) ==
    ProfileDict(
        extract_config_entry(d, "replication", EMPTY_DEFAULT, NoValidator,
                             "dict", ProfilePrefix(name)),
        extract_config_entry(d, "durable_writes", PyBool(TRUE), NoValidator,
                             "bool", ProfilePrefix(name)))

-----------------------------------------------------------------------------
(* os.path.join(base_path, migrations_path), line 84; paths are sequences    *)
(* of lexemes, "/" being one                                                 *)

PathJoin(a, b) ==
    IF b # <<>> /\ b[1] = "/" THEN b
    ELSE IF a = <<>> \/ a[Len(a)] = "/" THEN a \o b
    ELSE a \o <<"/">> \o b

-----------------------------------------------------------------------------
(* format_migration_string, lines 151-155 *)

\* kwargs.keys(): a list on Python 2, a set-like view on Python 3 (the order
\* of the keys plays no part below, the payload is their set)
DictKeys(kwargs) ==
    IF PythonMajor = 2 THEN PyList(DOMAIN kwargs)
    ELSE [t |-> "dict_keys", v |-> DOMAIN kwargs]

\* a != b: a list never equals a set, whatever they hold; sets and set-like
\* views compare by their elements
PyNe(a, b) ==
    IF a.t \in {"set", "dict_keys"} /\ b.t \in {"set", "dict_keys"}
    THEN a.v # b.v
    ELSE a.t # b.t \/ a.v # b.v

\* format(value, format_spec) of a string value: the value itself for an
\* empty specification, otherwise left uninterpreted
FormatField(value, format_spec) ==
    IF format_spec = "" THEN value
    ELSE "format(" \o value \o "," \o format_spec \o ")"

\* Formatter._vformat: the rendered text from position i on, or the exception
RECURSIVE VFormat(_, _, _, _)
VFormat(s, i, kwargs, recursion_depth) ==
    IF recursion_depth < 0
    THEN Raise(ValueError("Max string recursion exceeded"))
    ELSE
    LET r == MarkupNext(s, i)
    IN  CASE r.kind = "stop" -> Return("")
          [] r.kind = "error" -> Raise(r.exc)
          [] OTHER ->
            LET rest == VFormat(s, r.next, kwargs, recursion_depth)
                lit == Text(r.literal)
            IN  IF ~r.field_present
                THEN IF rest.exc.type # "none" THEN rest
                     ELSE Return(lit \o rest.value)
                ELSE
                LET first == Text(FirstDotted(r.field_name))
                    spec == VFormat(r.format_spec, 1, kwargs, recursion_depth - 1)
                IN  IF first \notin DOMAIN kwargs THEN Raise(KeyError(first))
                    ELSE IF Len(FirstDotted(r.field_name)) < Len(r.field_name)
                    THEN Raise(AttributeError(
                            "'unicode' object has no attribute"))
                    ELSE IF spec.exc.type # "none" THEN spec
                    ELSE IF rest.exc.type # "none" THEN rest
                    ELSE Return(lit \o FormatField(kwargs[first], spec.value)
                                    \o rest.value)

format_migration_string(fmt, kwargs) ==
    IF PyNe(DictKeys(kwargs), PySet(MIGRATION_FORMAT_STRING_FIELDS))
    THEN Raise(ValueError("Invalid keys for migration name format data"))
    ELSE VFormat(fmt.v, 1, kwargs, 2)

-----------------------------------------------------------------------------
(* The inputs: raw mappings as yaml.load returns them *)

Absent == [t |-> "absent", v |-> <<>>]

NetworkTopology == PyDict([class |-> "NetworkTopologyStrategy", dc1 |-> 3])

KeyspaceChoices ==
    { Absent, PyNone, PyInt(5),
      PyUnicode(<<"k", "s", "1">>),          \* ks1
      PyUnicode(<<"1", "a", "b", "c">>),     \* 1abc
      PyUnicode(<<"k", " ", "s">>),          \* "k s"
      PyUnicode(<<"k", "s", "\n">>) }        \* ks and a line break

ProfileNames == {"dev", "prod", "qa"}

ProfileChoices ==
    { PyDict([replication |-> NetworkTopology]),
      PyDict([replication |-> NetworkTopology, durable_writes |-> PyBool(FALSE)]),
      PyDict([durable_writes |-> PyBool(TRUE)]),
      PyDict([replication |-> PyInt(5)]) }

\* the mappings of at most MaxProfiles profile names to profile entries
UserProfileMaps ==
    UNION { [N -> ProfileChoices] :
            N \in {M \in SUBSET ProfileNames : Cardinality(M) <= MaxProfiles} }

ProfilesChoices ==
    {Absent, PyInt(5)} \cup {PyDict(m) : m \in UserProfileMaps}

MigrationsPathChoices ==
    { Absent, PyUnicode(<<"migrations">>), PyUnicode(<<"/", "srv", "/", "cql">>) }

MigrationsTableChoices ==
    { Absent,
      PyUnicode(<<"t", "_", "1">>),
      PyUnicode(<<"1", "t">>),
      PyUnicode(<<"t", "\n">>) }

NewMigrationNameChoices ==
    { Absent,
      PyUnicode(<<"{", "keyspace", "}", "-", "{", "next_version", "}">>),
      PyUnicode(<<"{", "unknown_field", "}">>),
      PyUnicode(<<"{", "}">>),
      PyUnicode(<<"{", "desc", ":", "{", "bogus", "}", "}">>) }

NewMigrationTextChoices ==
    { Absent,
      PyUnicode(<<"-- ", "{", "full_desc", "}">>),
      PyUnicode(<<"{", "desc", ".", "upper", "}", "{", "date">>),
      PyUnicode(<<"{", "date", "}", "{", "{", "x">>) }

Keys ==
    {"keyspace", "profiles", "migrations_path", "migrations_table",
     "new_migration_name", "new_migration_text"}

\* every mapping that holds, for each key, one of its choices or no entry
Documents ==
    { PyDict(Restrict(r, {k \in Keys : r[k].t # "absent"})) :
        r \in [keyspace : KeyspaceChoices,
               profiles : ProfilesChoices,
               migrations_path : MigrationsPathChoices,
               migrations_table : MigrationsTableChoices,
               new_migration_name : NewMigrationNameChoices,
               new_migration_text : NewMigrationTextChoices] }

BasePaths == { <<"/", "app", "/", "conf">> }

\* what Migration.glob_all may return: opaque to this module
GlobResults == { <<>>, <<"v001_init.cql">> }

\* the keyword arguments format_migration_string is called with
FormatKwargs(ks) ==
    LET exact == [f \in MIGRATION_FORMAT_STRING_FIELDS |->
                    CASE f = "keyspace" -> ks
                      [] f = "next_version" -> "3"
                      [] OTHER -> ""]
    IN  { exact,
          Restrict(exact, MIGRATION_FORMAT_STRING_FIELDS \ {"date"}),
          Restrict(exact, MIGRATION_FORMAT_STRING_FIELDS \ {"keyspace"}),
          [f \in MIGRATION_FORMAT_STRING_FIELDS \cup {"author"} |->
              IF f = "author" THEN "me" ELSE exact[f]] }

-----------------------------------------------------------------------------
(* MigrationConfig.__init__, lines 63-101, one action per statement *)

\* (variant: the migrations are globbed before the text template is read)
StatementsGlobEarly ==
    << "keyspace", "profiles", "profiles_update", "migrations_path",
       "migrations_table", "new_migration_name", "glob_all",
       "new_migration_text" >>

\* the statements of __init__ in program order
Statements ==
    << "keyspace", "profiles", "profiles_update", "migrations_path",
       "migrations_table", "new_migration_name", "new_migration_text",
       "glob_all" >>

StatementAfter(stmt) ==
    LET i == CHOOSE n \in 1..Len(Statements) : Statements[n] = stmt
    IN  IF i = Len(Statements) THEN "done" ELSE Statements[i + 1]

NoObject == <<>>

NoCall == [fmt |-> Unset, kwargs |-> <<>>]

NoAttributes ==
    [keyspace |-> Unset, profiles |-> Unset, migrations_path |-> Unset,
     migrations_table |-> Unset, new_migration_name |-> Unset,
     new_migration_text |-> Unset, migrations |-> Unset]

PyRef(obj) == [t |-> "ref", v |-> obj]

\* (variant: no copy, the instance shares the class's dict)
SameObject(obj) == obj

\* DEFAULT_PROFILES.copy() (line 78) returns a new dict object
CopyOf(obj) == "copy"

\* the dict self.profiles refers to
Profiles == heap[self.profiles.v]

\* an exception leaves __init__: pc stays at the statement that raised it
RaiseFromInit(e) ==
    /\ pc' = pc
    /\ err' = e

\* MigrationConfig(data, base_path): a new instance, no attribute assigned yet
Construct ==
    /\ pc = "idle"
    /\ pc' = Statements[1]
    /\ \E d \in Documents, base \in BasePaths :
            /\ data' = d
            /\ base_path' = base
    /\ UNCHANGED <<self, heap, user_profiles, err, glob_calls, fmt_call, fmt_ret>>

\* the caller is done with the instance, or has handled the exception; the
\* class and its DEFAULT_PROFILES stay as they are
Release ==
    /\ pc = "done" \/ err.type # "none"
    /\ pc' = "idle"
    /\ data' = PyDict(<<>>)
    /\ base_path' = <<>>
    /\ self' = NoAttributes
    /\ heap' = [heap EXCEPT !.copy = NoObject]
    /\ user_profiles' = Unset
    /\ err' = NoError
    /\ glob_calls' = <<>>
    /\ fmt_call' = NoCall
    /\ fmt_ret' = Return("")

\* lines 73-74
ExtractKeyspace ==
    /\ pc = "keyspace" /\ err.type = "none"
    /\ LET r == extract_config_entry(data, "keyspace", EMPTY_DEFAULT,
                                     "validate_identifier", "unicode", "")
       IN  IF r.exc.type # "none"
           THEN RaiseFromInit(r.exc) /\ UNCHANGED self
           ELSE /\ self' = [self EXCEPT !.keyspace = r.value]
                /\ pc' = StatementAfter("keyspace")
                /\ UNCHANGED err
    /\ UNCHANGED <<data, base_path, heap, user_profiles, glob_calls,
                   fmt_call, fmt_ret>>

\* lines 76-78
ExtractProfiles ==
    /\ pc = "profiles" /\ err.type = "none"
    /\ LET r == extract_config_entry(data, "profiles", PyDict(<<>>),
                                     NoValidator, "dict", "")
           obj == CopyOf("defaults")
       IN  IF r.exc.type # "none"
           THEN RaiseFromInit(r.exc) /\ UNCHANGED <<self, heap, user_profiles>>
           ELSE /\ user_profiles' = r.value
                /\ heap' = [heap EXCEPT ![obj] = heap.defaults]
                /\ self' = [self EXCEPT !.profiles = PyRef(obj)]
                /\ pc' = StatementAfter("profiles")
                /\ UNCHANGED err
    /\ UNCHANGED <<data, base_path, glob_calls, fmt_call, fmt_ret>>

\* the orders in which a dict of these names may be iterated
Orders(N) ==
    { o \in [1..Cardinality(N) -> N] :
        \A i, j \in 1..Cardinality(N) : o[i] = o[j] => i = j }

\* dict.update consuming the generator of lines 79-80 from its i-th item on:
\* every pair produced before an exception is already stored
RECURSIVE UpdateFrom(_, _, _, _)
StoreProfile(m, up, order, i, r) ==
    IF r.exc.type # "none" THEN [exc |-> r.exc, dict |-> m]
    ELSE UpdateFrom(DictPut(m, order[i], r.value), up, order, i + 1)

UpdateFrom(m, up, order, i) ==
    IF i > Len(order) THEN [exc |-> NoError, dict |-> m]
    ELSE StoreProfile(m, up, order, i, extract_profile(up.v[order[i]], order[i]))

\* lines 79-80
UpdateProfiles ==
    /\ pc = "profiles_update" /\ err.type = "none"
    /\ \E order \in Orders(DOMAIN user_profiles.v) :
         LET r == UpdateFrom(Profiles, user_profiles, order, 1)
         IN  /\ heap' = [heap EXCEPT ![self.profiles.v] = r.dict]
             /\ IF r.exc.type # "none"
                THEN RaiseFromInit(r.exc)
                ELSE pc' = StatementAfter("profiles_update") /\ UNCHANGED err
    /\ UNCHANGED <<data, base_path, self, user_profiles, glob_calls,
                   fmt_call, fmt_ret>>

\* lines 82-84
ExtractMigrationsPath ==
    /\ pc = "migrations_path" /\ err.type = "none"
    /\ LET r == extract_config_entry(data, "migrations_path", EMPTY_DEFAULT,
                                     NoValidator, "unicode", "")
       IN  IF r.exc.type # "none"
           THEN RaiseFromInit(r.exc) /\ UNCHANGED self
           ELSE /\ self' = [self EXCEPT !.migrations_path =
                                PyUnicode(PathJoin(base_path, r.value.v))]
                /\ pc' = StatementAfter("migrations_path")
                /\ UNCHANGED err
    /\ UNCHANGED <<data, base_path, heap, user_profiles, glob_calls,
                   fmt_call, fmt_ret>>

\* lines 86-89
ExtractMigrationsTable ==
    /\ pc = "migrations_table" /\ err.type = "none"
    /\ LET r == extract_config_entry(data, "migrations_table",
                                     DefaultMigrationsTable,
                                     "validate_identifier", "unicode", "")
       IN  IF r.exc.type # "none"
           THEN RaiseFromInit(r.exc) /\ UNCHANGED self
           ELSE /\ self' = [self EXCEPT !.migrations_table = r.value]
                /\ pc' = StatementAfter("migrations_table")
                /\ UNCHANGED err
    /\ UNCHANGED <<data, base_path, heap, user_profiles, glob_calls,
                   fmt_call, fmt_ret>>

\* lines 91-94
ExtractNewMigrationName ==
    /\ pc = "new_migration_name" /\ err.type = "none"
    /\ LET r == extract_config_entry(data, "new_migration_name",
                                     DefaultNewMigrationName,
                                     "validate_migration_format_string",
                                     "unicode", "")
       IN  IF r.exc.type # "none"
           THEN RaiseFromInit(r.exc) /\ UNCHANGED self
           ELSE /\ self' = [self EXCEPT !.new_migration_name = r.value]
                /\ pc' = StatementAfter("new_migration_name")
                /\ UNCHANGED err
    /\ UNCHANGED <<data, base_path, heap, user_profiles, glob_calls,
                   fmt_call, fmt_ret>>

\* lines 96-99
ExtractNewMigrationText ==
    /\ pc = "new_migration_text" /\ err.type = "none"
    /\ LET r == extract_config_entry(data, "new_migration_text",
                                     DEFAULT_NEW_MIGRATION_TEXT,
                                     "validate_migration_format_string",
                                     "unicode", "")
       IN  IF r.exc.type # "none"
           THEN RaiseFromInit(r.exc) /\ UNCHANGED self
           ELSE /\ self' = [self EXCEPT !.new_migration_text = r.value]
                /\ pc' = StatementAfter("new_migration_text")
                /\ UNCHANGED err
    /\ UNCHANGED <<data, base_path, heap, user_profiles, glob_calls,
                   fmt_call, fmt_ret>>

\* line 101
GlobAll ==
    /\ pc = "glob_all" /\ err.type = "none"
    /\ glob_calls' = Append(glob_calls,
                            [path |-> self.migrations_path, pattern |-> "*.cql"])
    /\ \E found \in GlobResults :
            self' = [self EXCEPT !.migrations = PyList(found)]
    /\ pc' = StatementAfter("glob_all")
    /\ UNCHANGED <<data, base_path, heap, user_profiles, err, fmt_call, fmt_ret>>

\* a caller renders one of the instance's templates, lines 151-155
FormatMigrationString ==
    /\ pc = "done"
    /\ \E fmt \in {self.new_migration_name, self.new_migration_text} :
       \E kwargs \in FormatKwargs(Text(self.keyspace.v)) :
            /\ fmt_call' = [fmt |-> fmt, kwargs |-> kwargs]
            /\ fmt_ret' = format_migration_string(fmt, kwargs)
    /\ UNCHANGED <<pc, data, base_path, self, heap, user_profiles, err,
                   glob_calls>>

Init ==
    /\ pc = "idle"
    /\ data = PyDict(<<>>)
    /\ base_path = <<>>
    /\ self = NoAttributes
    /\ heap = [defaults |-> DEFAULT_PROFILES, copy |-> NoObject]
    /\ user_profiles = Unset
    /\ err = NoError
    /\ glob_calls = <<>>
    /\ fmt_call = NoCall
    /\ fmt_ret = Return("")

Next ==
    \/ Construct
    \/ ExtractKeyspace
    \/ ExtractProfiles
    \/ UpdateProfiles
    \/ ExtractMigrationsPath
    \/ ExtractMigrationsTable
    \/ ExtractNewMigrationName
    \/ ExtractNewMigrationText
    \/ GlobAll
    \/ FormatMigrationString
    \/ Release

Spec == Init /\ [][Next]_vars

-----------------------------------------------------------------------------
(* Vocabulary of the properties *)

Raised == err.type # "none"

StatementIndex(stmt) ==
    IF stmt = "idle" THEN 0
    ELSE IF stmt = "done" THEN Len(Statements) + 1
    ELSE CHOOSE n \in 1..Len(Statements) : Statements[n] = stmt

\* the statement has run: it raised, or control is past it
Executed(stmt) ==
    \/ pc = stmt /\ Raised
    \/ StatementIndex(pc) > StatementIndex(stmt)

Succeeded == pc = "done"

\* the value the document gives for a key, or None
Given(key) == DictGet(data, key)

\* the profiles the document supplies
GivenProfiles == IF IsNone(Given("profiles")) THEN <<>> ELSE Given("profiles").v

\* a letter followed by letters, digits and underscores, and nothing else
RECURSIVE AllWordChars(_, _)
AllWordChars(s, i) ==
    i > Len(s) \/ (IsWordChar(s[i]) /\ AllWordChars(s, i + 1))

StrictIdentifier(s) == Len(s) >= 1 /\ IsLetter(s[1]) /\ AllWordChars(s, 2)

\* every field reference of the template, those nested in a format
\* specification included, names one of the fixed fields
RECURSIVE AllReferencesKnown(_, _)
AllReferencesKnown(s, i) ==
    LET r == MarkupNext(s, i)
    IN  CASE r.kind = "stop" -> TRUE
          [] r.kind = "error" -> FALSE
          [] OTHER ->
               /\ r.field_present =>
                    /\ Text(FirstDotted(r.field_name)) \in MIGRATION_FORMAT_STRING_FIELDS
                    /\ AllReferencesKnown(r.format_spec, 1)
               /\ AllReferencesKnown(s, r.next)

-----------------------------------------------------------------------------
MandatoryError(key_str) ==
    /\ err.type = "ConfigValidationError"
    /\ err.key = key_str
    /\ IsNone(err.value)
    /\ err.args = "Key is mandatory"

LacksReplication(n) == IsNone(DictGet(GivenProfiles[n], "replication"))

\* the exception is about an entry of profile n
Concerns(n) ==
    /\ err.type = "ConfigValidationError"
    /\ err.key \in {"profiles." \o n \o ".replication",
                    "profiles." \o n \o ".durable_writes"}

(* C1: extract_config_entry without a default raises ConfigValidationError  *)
(* for an absent or null key, with key = prefix + key and value None: a     *)
(* document without `keyspace` or `migrations_path` fails at that statement *)
(* with that key path; a construction never gets past the profile update    *)
(* when a supplied profile lacks `replication`, an exception raised there   *)
(* is about one of the supplied profiles, and when that profile lacks       *)
(* `replication` it is the mandatory-key error for                          *)
(* profiles.<name>.replication.                                             *)
C1_MandatoryKey ==
    /\ \A key \in {"keyspace", "migrations_path"} :
          (Executed(key) /\ IsNone(Given(key)))
              => (pc = key /\ MandatoryError(key))
    /\ (Executed("profiles_update") /\ \E n \in DOMAIN GivenProfiles : LacksReplication(n))
          => (pc = "profiles_update" /\ Raised)
    /\ (pc = "profiles_update" /\ Raised)
          => /\ \E n \in DOMAIN GivenProfiles : Concerns(n)
             /\ \A n \in DOMAIN GivenProfiles :
                   (Concerns(n) /\ LacksReplication(n))
                       => MandatoryError("profiles." \o n \o ".replication")

C1_Witness ==
    /\ pc = "profiles_update"
    /\ MandatoryError("profiles.prod.replication")
    /\ "dev" \in DOMAIN Profiles /\ "qa" \in DOMAIN Profiles

-----------------------------------------------------------------------------
(* C2: a document without `profiles` yields exactly                         *)
(* {dev: {replication: SimpleStrategy/1, durable_writes: true}}.            *)
C2_DefaultDevHasDurableWrites ==
    (Succeeded /\ "profiles" \notin DOMAIN data.v)
        => Profiles = [dev |-> PyDict([replication |-> SimpleStrategy,
                                       durable_writes |-> PyBool(TRUE)])]

-----------------------------------------------------------------------------
(* C3: after a successful construction every field reference of both        *)
(* templates, nested ones included, names one of the fixed fields.          *)
C3_TemplatesReferenceKnownFields ==
    Succeeded =>
        /\ AllReferencesKnown(self.new_migration_name.v, 1)
        /\ AllReferencesKnown(self.new_migration_text.v, 1)

-----------------------------------------------------------------------------
OnlyMandatoryKeysGiven ==
    /\ DOMAIN data.v = {"keyspace", "migrations_path"}
    /\ Given("keyspace").t = "unicode" /\ StrictIdentifier(Given("keyspace").v)
    /\ Given("migrations_path").t = "unicode"

(* C4: a document with only a valid `keyspace` and `migrations_path` is     *)
(* constructed without an error, the three defaults being used.             *)
C4_DefaultsConstruct ==
    OnlyMandatoryKeysGiven =>
        /\ ~Raised
        /\ Succeeded =>
              /\ self.migrations_table = DefaultMigrationsTable
              /\ self.new_migration_name = DefaultNewMigrationName
              /\ self.new_migration_text = DEFAULT_NEW_MIGRATION_TEXT

-----------------------------------------------------------------------------
ValidatedKeys ==
    {"keyspace", "migrations_table", "new_migration_name", "new_migration_text"}

ValidatorOf(key) ==
    IF key \in {"keyspace", "migrations_table"} THEN "validate_identifier"
    ELSE "validate_migration_format_string"

DefaultOf(key) ==
    CASE key = "migrations_table" -> DefaultMigrationsTable
      [] key = "new_migration_name" -> DefaultNewMigrationName
      [] key = "new_migration_text" -> DEFAULT_NEW_MIGRATION_TEXT
      [] OTHER -> PyNone

ResolvedValue(key) == IF IsNone(Given(key)) THEN DefaultOf(key) ELSE Given(key)

Rejects(key) ==
    /\ ResolvedValue(key).t = "unicode"
    /\ CallValidator(ValidatorOf(key), ResolvedValue(key)).type = "ValueError"

(* C5: when the validator of a key raises ValueError on the resolved value, *)
(* the statement raises ConfigValidationError and nothing else, with the    *)
(* key path, the rejected value and the validator's message.                *)
C5_ValidatorRejection ==
    \A key \in ValidatedKeys :
        (Executed(key) /\ Rejects(key))
            => /\ pc = key
               /\ err.type = "ConfigValidationError"
               /\ err.key = key
               /\ err.value = ResolvedValue(key)
               /\ err.args = "Validation failed: " \o
                      CallValidator(ValidatorOf(key), ResolvedValue(key)).message

C5_Witness ==
    /\ pc = "new_migration_name"
    /\ err.type = "ConfigValidationError"
    /\ err.value = PyUnicode(<<"{", "unknown_field", "}">>)
    /\ err.args = "Validation failed: Unknown format field: unknown_field"

-----------------------------------------------------------------------------
ExtractedAttributes ==
    {"keyspace", "profiles", "migrations_path", "migrations_table",
     "new_migration_name", "new_migration_text"}

(* C6: Migration.glob_all is called once per successful construction, with  *)
(* the joined migrations path and "*.cql", after the six keys have been     *)
(* extracted, and never in a construction that raised.                      *)
C6_GlobAllOnceAtTheEnd ==
    /\ Len(glob_calls) <= 1
    /\ Raised => glob_calls = <<>>
    /\ glob_calls # <<>> =>
          /\ \A a \in ExtractedAttributes : self[a].t # "unset"
          /\ \A key \in ExtractedAttributes : Executed(key)
          /\ Executed("profiles_update")
    /\ Succeeded =>
          glob_calls =
             << [path |-> PyUnicode(PathJoin(base_path, Given("migrations_path").v)),
                 pattern |-> "*.cql"] >>

C6_Witness ==
    /\ Succeeded
    /\ Len(glob_calls) = 1
    /\ glob_calls[1].path.v = <<"/", "app", "/", "conf", "/", "migrations">>

-----------------------------------------------------------------------------
Called == fmt_call.fmt.t # "unset"

(* C7: format_migration_string raises ValueError exactly when the supplied  *)
(* keys differ from the fixed field set, and renders the template otherwise *)
(* ("{keyspace}-{next_version}" with ks1 and 3 gives "ks1-3").              *)
C7_FormatRejectsOnlyWrongKeys ==
    (Succeeded /\ Called) =>
        /\ (fmt_ret.exc.type = "ValueError")
              <=> (DOMAIN fmt_call.kwargs # MIGRATION_FORMAT_STRING_FIELDS)
        /\ ( /\ DOMAIN fmt_call.kwargs = MIGRATION_FORMAT_STRING_FIELDS
             /\ fmt_call.kwargs["keyspace"] = "ks1"
             /\ fmt_call.fmt.v = <<"{", "keyspace", "}", "-", "{", "next_version", "}">> )
           => fmt_ret = Return("ks1-3")

-----------------------------------------------------------------------------
(* C8: after a successful construction `keyspace` and `migrations_table`    *)
(* are a letter followed by letters, digits and underscores only.           *)
C8_IdentifiersWellFormed ==
    Succeeded =>
        /\ StrictIdentifier(self.keyspace.v)
        /\ StrictIdentifier(self.migrations_table.v)

-----------------------------------------------------------------------------
ExpectedProfile(entry) ==
    PyDict([replication |-> entry.v["replication"],
            durable_writes |->
                IF IsNone(DictGet(entry, "durable_writes")) THEN PyBool(TRUE)
                ELSE entry.v["durable_writes"]])

(* C9: after a successful construction the profile names are dev and the    *)
(* user's names; each user's name maps to its replication as given and its  *)
(* durable_writes as given or true, a user's dev replacing the built-in one *)
(* entirely; without a user's dev the built-in entry is there.              *)
C9_ProfilesMerged ==
    Succeeded =>
        /\ DOMAIN Profiles = {"dev"} \cup DOMAIN GivenProfiles
        /\ \A n \in DOMAIN GivenProfiles :
                Profiles[n] = ExpectedProfile(GivenProfiles[n])
        /\ "dev" \notin DOMAIN GivenProfiles =>
                Profiles["dev"] = PyDict([replication |-> SimpleStrategy])

C9_Witness ==
    /\ Succeeded
    /\ DOMAIN GivenProfiles = {"dev", "prod"}
    /\ Profiles["dev"].v["replication"] = NetworkTopology
    /\ Profiles["prod"].v["durable_writes"] = PyBool(FALSE)

-----------------------------------------------------------------------------
(* C10: DEFAULT_PROFILES is never changed by any construction, so a later   *)
(* construction starts from the same built-in table.                        *)
C10_DefaultProfilesUntouched ==
    /\ heap.defaults = DEFAULT_PROFILES
    /\ (Executed("profiles") /\ ~Raised /\ pc = "profiles_update")
          => Profiles = DEFAULT_PROFILES

C10_Witness ==
    /\ Executed("profiles_update") /\ ~Raised
    /\ "dev" \in DOMAIN GivenProfiles
    /\ Profiles["dev"] # heap.defaults["dev"]
    /\ self.profiles.v # "defaults"

====
